---- MODULE Spec2Model ----
(***************************************************************************)
(* A model of the early-project-poster pipeline: the Gemini summarizer     *)
(* (modules/gemini_summarizer.py), the Typefully publisher                 *)
(* (modules/typefully_publisher.py), the record source                     *)
(* (modules/web3alerts_scraper.py), and format_tweet and run_bot (main.py, *)
(* config.py).                                                             *)
(*                                                                         *)
(* Python strings are sequences of one-character strings, so that strip,   *)
(* split and join are computed rather than assumed.  Python's None is the  *)
(* sentinel None, which is no string of characters.                        *)
(***************************************************************************)
EXTENDS Integers, Sequences, FiniteSets, TLC

VARIABLES
    sd,            \* the summarize_description call: its arguments and its result
    projects,      \* summarize_projects: the list of project dicts, mutated in place
    projects0,     \* the list as it was passed to summarize_projects
    max_words,     \* summarize_projects: the max_words argument
    pc,            \* summarize_projects: position in the function body
    idx,           \* summarize_projects: enumerate() index of the next project (0-based)
    summaries,     \* summarize_projects: result of _parse_batch_response
    log,           \* service requests and sleeps of the summarizer, in order
    social_set_id, \* TypefullyPublisher.social_set_id
    publish_now,   \* TypefullyPublisher.publish_now
    hours_delay,   \* TypefullyPublisher.hours_delay
    calls,         \* number of publish calls made on the instance
    call,          \* the last publish call: its inputs, its requests, its result
    latest,        \* the get_latest_projects call: the fetched list, count, the result
    fmt,           \* the format_tweet call: the projects, the date, the text
    run            \* run_bot: its configuration, its position, its exit status

vars == <<sd, projects, projects0, max_words, pc, idx, summaries, log,
          social_set_id, publish_now, hours_delay, calls, call, latest, fmt, run>>

sumVars == <<projects, projects0, max_words, pc, idx, summaries, log>>
pubVars == <<social_set_id, publish_now, hours_delay, calls, call>>
extVars == <<latest, fmt, run>>

-----------------------------------------------------------------------------
(* Bounds of the model *)

MaxPad == 1          \* leading / trailing whitespace of a generated description
MaxGap == 2          \* spaces between two words of a generated description
MaxDescWords == 4    \* words of a generated description
MaxMaxWords == 3     \* largest max_words argument
MaxItems == 3        \* items of a fetched collection
MaxDays == 2         \* largest days_since_discovery of a fetched item
MaxCount == 3        \* largest count argument of get_latest_projects
MaxProjects == 2     \* longest project list
MaxPublishCalls == 2 \* publish calls on one publisher instance
MaxHoursDelay == 1   \* largest hours_delay

(* Program constants *)

MIN_DESCRIPTION_LEN == 20
RATE_LIMIT_DELAY == 4

-----------------------------------------------------------------------------
(* Python values *)

None == <<"<None>">>

\* bool(x) of an Optional[str]
Truthy(s) == s # None /\ s # <<>>

SetMin(S) == CHOOSE m \in S : \A k \in S : m <= k
SetMax(S) == CHOOSE m \in S : \A k \in S : m >= k

\* the characters str.strip() and str.split() treat as whitespace
WS == {" ", "\t", "\n"}

\* the argument of strip('"\'')
QUOTES == {"\"", "'"}

\* s.strip(chars)
StripChars(s, chars) ==
    LET keep == {k \in 1..Len(s) : s[k] \notin chars}
    IN  IF keep = {} THEN <<>> ELSE SubSeq(s, SetMin(keep), SetMax(keep))

\* s.strip()
Strip(s) == StripChars(s, WS)

\* s.split(): the maximal runs of non-whitespace characters, in order
Split(s) ==
    LET starts == {k \in 1..Len(s) : s[k] \notin WS /\ (k = 1 \/ s[k - 1] \in WS)}
    IN  [i \in 1..Cardinality(starts) |->
            LET a == CHOOSE k \in starts : Cardinality({j \in starts : j <= k}) = i
                b == CHOOSE k \in a..Len(s) :
                        /\ \A j \in a..k : s[j] \notin WS
                        /\ (k = Len(s) \/ s[k + 1] \in WS)
            IN  SubSeq(s, a, b)]

\* seq[:n] for n >= 0
Take(seq, n) == SubSeq(seq, 1, IF n < Len(seq) THEN n ELSE Len(seq))

\* sep.join(words)
RECURSIVE Join(_, _)
Join(words, sep) ==
    IF words = <<>> THEN <<>>
    ELSE IF Len(words) = 1 THEN words[1]
    ELSE words[1] \o sep \o Join(Tail(words), sep)

ELLIPSIS == <<".", ".", ".">>

-----------------------------------------------------------------------------
(* GeminiSummarizer.summarize_description *)

\* client.models.generate_content: it raises, or it returns a response whose
\* .text is a string or None
Raises == [raises |-> TRUE, text |-> None]
Returns(text) == [raises |-> FALSE, text |-> text]

\* the ellipsis appended when the description has exactly max words too
Truncate_OffByOne(description, max) ==
    LET words == Take(Split(description), max)
    IN  IF Len(Split(description)) >= max
        THEN Join(words, <<" ">>) \o ELLIPSIS
        ELSE description

\* the except branch: truncation of the original description
Truncate(description, max) ==
    LET words == Take(Split(description), max)
    IN  IF Len(Split(description)) > max
        THEN Join(words, <<" ">>) \o ELLIPSIS
        ELSE description

\* the request raises, or response.text is None and .strip() on it raises
\* AttributeError
RequestFails(outcome) == outcome.raises \/ outcome.text = None

\* the try body: the request, then response.text.strip().strip('"\'')
SummaryRequest(outcome) ==
    IF RequestFails(outcome)
    THEN [raised |-> TRUE, value |-> None]
    ELSE [raised |-> FALSE, value |-> StripChars(Strip(outcome.text), QUOTES)]

\* the length guard applied to the raw description, not the trimmed one
SummarizeDescription_NoStrip(description, max, outcome) ==
    IF ~Truthy(description) \/ Len(description) < MIN_DESCRIPTION_LEN
    THEN [value  |-> IF Truthy(description) THEN Strip(description) ELSE <<>>,
          called |-> FALSE, raised |-> FALSE]
    ELSE LET r == SummaryRequest(outcome)
         IN  IF r.raised
             THEN [value |-> Truncate(description, max), called |-> TRUE, raised |-> FALSE]
             ELSE [value |-> r.value, called |-> TRUE, raised |-> FALSE]

\* no except branch: a failed request propagates
SummarizeDescription_NoCatch(description, max, outcome) ==
    IF ~Truthy(description) \/ Len(Strip(description)) < MIN_DESCRIPTION_LEN
    THEN [value  |-> IF Truthy(description) THEN Strip(description) ELSE <<>>,
          called |-> FALSE, raised |-> FALSE]
    ELSE LET r == SummaryRequest(outcome)
         IN  [value |-> r.value, called |-> TRUE, raised |-> r.raised]

SummarizeDescription(description, max, outcome) ==
    IF ~Truthy(description) \/ Len(Strip(description)) < MIN_DESCRIPTION_LEN
    THEN [value  |-> IF Truthy(description) THEN Strip(description) ELSE <<>>,
          called |-> FALSE, raised |-> FALSE]
    ELSE LET r == SummaryRequest(outcome)
         IN  IF r.raised
             THEN [value |-> Truncate(description, max), called |-> TRUE, raised |-> FALSE]
             ELSE [value |-> r.value, called |-> TRUE, raised |-> FALSE]

-----------------------------------------------------------------------------
(* Inputs of summarize_description *)

Chars(c, n) == [k \in 1..n |-> c]

\* n words of wlen letters, gap spaces apart, between lead spaces and trail newlines
Phrase(lead, n, wlen, gap, trail) ==
    Chars(" ", lead) \o Join([k \in 1..n |-> Chars("a", wlen)], Chars(" ", gap))
                     \o Chars("\n", trail)

WordLens == {4, 9, 19, 20}

Descriptions ==
    {None, <<>>, Chars(" ", 2)} \cup
    {Phrase(l, n, w, g, t) : l \in 0..MaxPad, n \in 1..MaxDescWords, w \in WordLens,
                             g \in 1..MaxGap, t \in 0..MaxPad}

SingleOutcomes ==
    {Raises, Returns(None), Returns(<<"x", " ", "y">>),
     Returns(<<" ", "\"", "x", "'", "\n">>), Returns(<<"\"", "\"">>)}

SDIdle == [description |-> None, max_words |-> 0, outcome |-> Raises,
           done |-> FALSE, value |-> None, called |-> FALSE, raised |-> FALSE]

SDResult(description, max, outcome) ==
    LET r == SummarizeDescription(description, max, outcome)
    IN  [description |-> description, max_words |-> max, outcome |-> outcome,
         done |-> TRUE, value |-> r.value, called |-> r.called, raised |-> r.raised]

NoCall == [made |-> FALSE]

LatestIdle == [fetch |-> [ok |-> FALSE, items |-> <<>>], count |-> 0,
               done |-> FALSE, raised |-> FALSE, result |-> <<>>]
FmtIdle == [projects |-> <<>>, today |-> <<>>, done |-> FALSE, text |-> <<>>]
RunIdle == [pc |-> "off"]

ExtIdle == latest = LatestIdle /\ fmt = FmtIdle /\ run = RunIdle

SumIdle ==
    /\ projects = <<>> /\ projects0 = <<>> /\ max_words = 0
    /\ pc = "idle" /\ idx = 0 /\ summaries = <<>> /\ log = <<>>

PubIdle ==
    /\ social_set_id = None /\ publish_now = FALSE /\ hours_delay = 0
    /\ calls = 0 /\ call = NoCall

\* a caller passes a description and max_words; the service outcome is the environment's
InitSD ==
    /\ sd \in [description : Descriptions, max_words : 0..MaxMaxWords,
               outcome : SingleOutcomes, done : {FALSE}, value : {None},
               called : {FALSE}, raised : {FALSE}]
    /\ SumIdle
    /\ PubIdle
    /\ ExtIdle

CallSummarizeDescription ==
    /\ ~sd.done
    /\ sd' = SDResult(sd.description, sd.max_words, sd.outcome)
    /\ UNCHANGED <<sumVars, pubVars, extVars>>

NextSD == CallSummarizeDescription

SpecSD == InitSD /\ [][NextSD]_vars

-----------------------------------------------------------------------------
(* GeminiSummarizer._parse_batch_response *)

\* s.split('\n'): empty pieces are kept
RECURSIVE SplitLines(_)
SplitLines(s) ==
    LET nl == {k \in 1..Len(s) : s[k] = "\n"}
    IN  IF nl = {} THEN <<s>>
        ELSE <<SubSeq(s, 1, SetMin(nl) - 1)>> \o SplitLines(SubSeq(s, SetMin(nl) + 1, Len(s)))

\* s.startswith(p)
StartsWith(s, p) == Len(p) <= Len(s) /\ SubSeq(s, 1, Len(p)) = p

DIGITS == <<"0", "1", "2", "3", "4", "5", "6", "7", "8", "9">>

\* str(n) for n >= 0
RECURSIVE IntToStr(_)
IntToStr(n) ==
    IF n < 10 THEN <<DIGITS[n + 1]>>
    ELSE IntToStr(n \div 10) \o <<DIGITS[(n % 10) + 1]>>

\* one loop "for prefix in [f"{i}<mark>" ...]: if line.startswith(prefix): ...; break"
StripNumbering(line, mark, expected_count) ==
    LET hits == {i \in 1..expected_count : StartsWith(line, IntToStr(i) \o <<mark>>)}
    IN  IF hits = {} THEN line
        ELSE LET prefix == IntToStr(SetMin(hits)) \o <<mark>>
             IN  Strip(SubSeq(line, Len(prefix) + 1, Len(line)))

\* the body of the loop over lines: strip, the three numbering loops, the quotes
CleanLine(line, expected_count) ==
    LET l0 == Strip(line)
        l1 == StripNumbering(l0, ".", expected_count)
        l2 == StripNumbering(l1, ")", expected_count)
        l3 == StripNumbering(l2, ":", expected_count)
    IN  StripChars(l3, QUOTES)

ParseBatchResponse(response_text, expected_count) ==
    LET lines == SplitLines(Strip(response_text))
        cleaned == [k \in 1..Len(lines) |-> CleanLine(lines[k], expected_count)]
    IN  SelectSeq(cleaned, LAMBDA l : l # <<>>)

-----------------------------------------------------------------------------
(* GeminiSummarizer.summarize_projects *)

\* a key the dict does not hold
Absent == <<"<absent>">>

\* project.get('description', '')
GetDescription(project) ==
    IF project.description = Absent THEN <<>> ELSE project.description

BatchEvent(outcome) == [op |-> "batch", ok |-> ~RequestFails(outcome), dur |-> 0]
SingleEvent(outcome) == [op |-> "single", ok |-> ~RequestFails(outcome), dur |-> 0]
SleepEvent(seconds) == [op |-> "sleep", ok |-> TRUE, dur |-> seconds]

\* the parsed summaries are ignored: every project is summarized on its own
BatchSummaryFor_AlwaysSingle(project, i, sums, max, outcome) ==
    SummarizeDescription(GetDescription(project), max, outcome)

\* the else branch missing: an unmatched project is left without a summary
BatchSummaryFor_NoFallback(project, i, sums, max, outcome) ==
    IF i < Len(sums) /\ Truthy(sums[i + 1])
    THEN [value |-> sums[i + 1], called |-> FALSE, raised |-> FALSE]
    ELSE [value |-> Absent, called |-> FALSE, raised |-> FALSE]

\* the body of the loop after a batch response: the parsed summary at this
\* position, else summarize_description for this project
BatchSummaryFor(project, i, sums, max, outcome) ==
    IF i < Len(sums) /\ Truthy(sums[i + 1])
    THEN [value |-> sums[i + 1], called |-> FALSE, raised |-> FALSE]
    ELSE SummarizeDescription(GetDescription(project), max, outcome)

FallbackSleep_Never(i) == <<>>

\* "if i > 0: time.sleep(RATE_LIMIT_DELAY)" of the except branch
FallbackSleep(i) == IF i > 0 THEN <<SleepEvent(RATE_LIMIT_DELAY)>> ELSE <<>>

Text(lines) == Join(lines, <<"\n">>)

\* the descriptions the project dicts carry
SumDescriptions ==
    {Absent, None, <<" ", "a", "b", " ">>, Phrase(0, 1, 20, 1, 0), Phrase(1, 3, 9, 2, 1)}

\* project k of the list is named k
ProjectLists ==
    UNION {[1..n -> SumDescriptions] : n \in 0..MaxProjects}

NewProject(k, description) ==
    [project_name |-> k, description |-> description, summary |-> Absent]

\* what the service answers to the batch prompt
BatchOutcomes ==
    {Raises, Returns(None), Returns(<<>>),
     Returns(Text(<<<<"1", ".", " ", "a">>>>)),
     Returns(Text(<<<<"1", ".", " ", "a">>, <<"2", ".", " ", "b">>>>)),
     Returns(Text(<<<<"1", ")", " ", "a">>, <<>>, <<"2", ":", " ", "\"", "b", "\"">>,
                    <<" ", "3", ".", "c">>>>)),
     Returns(Text(<<<<"1", ".">>, <<"2", ".", " ", "b">>>>))}

InitSum ==
    /\ \E ds \in ProjectLists :
          /\ projects = [k \in 1..Len(ds) |-> NewProject(k, ds[k])]
          /\ projects0 = projects
    /\ max_words \in 1..MaxMaxWords
    /\ pc = "entry"
    /\ idx = 0
    /\ summaries = <<>>
    /\ log = <<>>
    /\ sd = SDIdle
    /\ PubIdle
    /\ ExtIdle

\* lines 82-89: the batch request and the parse of its response
BatchRequest ==
    /\ pc = "entry"
    /\ \E outcome \in BatchOutcomes :
          /\ log' = Append(log, BatchEvent(outcome))
          /\ IF RequestFails(outcome)
             THEN pc' = "fallback_loop" /\ summaries' = <<>>
             ELSE /\ pc' = "batch_loop"
                  /\ summaries' = ParseBatchResponse(outcome.text, Len(projects))
    /\ idx' = 0
    /\ UNCHANGED <<projects, projects0, max_words, sd, pubVars, extVars>>

\* lines 92-98: one iteration of the loop inside the try
BatchLoopStep ==
    /\ pc = "batch_loop"
    /\ idx < Len(projects)
    /\ \E outcome \in SingleOutcomes :
          LET r == BatchSummaryFor(projects[idx + 1], idx, summaries, max_words, outcome)
          IN  /\ log' = IF r.called THEN Append(log, SingleEvent(outcome)) ELSE log
              /\ IF r.raised
                 THEN pc' = "fallback_loop" /\ idx' = 0 /\ UNCHANGED projects
                 ELSE /\ projects' = [projects EXCEPT ![idx + 1].summary = r.value]
                      /\ idx' = idx + 1
                      /\ pc' = pc
    /\ UNCHANGED <<projects0, max_words, summaries, sd, pubVars, extVars>>

\* lines 100-101
BatchLoopReturn ==
    /\ pc = "batch_loop"
    /\ idx = Len(projects)
    /\ pc' = "returned"
    /\ UNCHANGED <<projects, projects0, max_words, idx, summaries, log, sd, pubVars, extVars>>

\* lines 106-111: one iteration of the loop of the except branch
FallbackLoopStep ==
    /\ pc = "fallback_loop"
    /\ idx < Len(projects)
    /\ \E outcome \in SingleOutcomes :
          LET r == SummarizeDescription(GetDescription(projects[idx + 1]), max_words, outcome)
          IN  /\ log' = log \o FallbackSleep(idx)
                            \o (IF r.called THEN <<SingleEvent(outcome)>> ELSE <<>>)
              /\ IF r.raised
                 THEN pc' = "raised" /\ UNCHANGED <<projects, idx>>
                 ELSE /\ projects' = [projects EXCEPT ![idx + 1].summary = r.value]
                      /\ idx' = idx + 1
                      /\ pc' = pc
    /\ UNCHANGED <<projects0, max_words, summaries, sd, pubVars, extVars>>

\* line 112
FallbackLoopReturn ==
    /\ pc = "fallback_loop"
    /\ idx = Len(projects)
    /\ pc' = "returned"
    /\ UNCHANGED <<projects, projects0, max_words, idx, summaries, log, sd, pubVars, extVars>>

NextSum ==
    \/ BatchRequest
    \/ BatchLoopStep
    \/ BatchLoopReturn
    \/ FallbackLoopStep
    \/ FallbackLoopReturn

SpecSum == InitSum /\ [][NextSum]_vars

-----------------------------------------------------------------------------
(* TypefullyPublisher *)

\* str(v) of a JSON string or null
PyStr(v) == IF v = None THEN <<"None">> ELSE v

\* "%02d"
Pad2(n) == IF n < 10 THEN <<"0">> \o IntToStr(n) ELSE IntToStr(n)

\* SGT = timezone(timedelta(hours=8))
SGT_OFFSET_HOURS == 8
MS_PER_SECOND == 1000
SECONDS_PER_HOUR == 3600
SECONDS_PER_DAY == 86400

\* datetime.now() in UTC, the "+08:00" suffix kept
CalculatePublishTime_UTC(now_ms, delay) ==
    LET secs == (now_ms \div MS_PER_SECOND) + delay * SECONDS_PER_HOUR
        day  == secs \div SECONDS_PER_DAY
        rest == secs % SECONDS_PER_DAY
    IN  <<"day">> \o IntToStr(day) \o <<"T">> \o Pad2(rest \div SECONDS_PER_HOUR)
            \o <<":">> \o Pad2((rest % SECONDS_PER_HOUR) \div 60)
            \o <<":">> \o Pad2(rest % 60) \o <<"+08:00">>

\* _calculate_publish_time: datetime.now(SGT) + timedelta(hours=hours_delay),
\* formatted "%Y-%m-%dT%H:%M:%S+08:00".  now_ms is the UTC clock in
\* milliseconds; the calendar date is written as the day's number.
CalculatePublishTime(now_ms, delay) ==
    LET secs == (now_ms \div MS_PER_SECOND) + (SGT_OFFSET_HOURS + delay) * SECONDS_PER_HOUR
        day  == secs \div SECONDS_PER_DAY
        rest == secs % SECONDS_PER_DAY
    IN  <<"day">> \o IntToStr(day) \o <<"T">> \o Pad2(rest \div SECONDS_PER_HOUR)
            \o <<":">> \o Pad2((rest % SECONDS_PER_HOUR) \div 60)
            \o <<":">> \o Pad2(rest % 60) \o <<"+08:00">>

\* lines 134-137
PublishAt(now_flag, now_ms, delay) ==
    IF now_flag THEN <<"now">> ELSE CalculatePublishTime(now_ms, delay)

\* PublishResult(success=False, error_msg=...)
Failure(error_msg) ==
    [success |-> FALSE, url |-> None, draft_id |-> None, scheduled_time |-> None,
     error_msg |-> error_msg]

\* only whitespace-free emptiness is checked
ContentIsEmpty_NoStrip(content) == ~Truthy(content)

\* line 118: not content or not content.strip()
ContentIsEmpty(content) == ~Truthy(content) \/ ~Truthy(Strip(content))

\* data.get('results', [])
GetResults(body) == IF body.has_results THEN body.results ELSE <<>>

\* the try body of _get_social_set_id raises: the GET raises, or response.json()
\* raises on a 200 response that is not JSON
LookupRaises(outcome) ==
    outcome.raises \/ (outcome.status = 200 /\ ~outcome.body.json_ok)

\* the cached identifier is ignored: every call looks the identifier up
GetSocialSetId_NoCache(cached, outcome) ==
    IF LookupRaises(outcome) \/ outcome.status # 200 \/ GetResults(outcome.body) = <<>>
    THEN [id |-> None, cache |-> cached, reqs |-> <<"GET">>]
    ELSE [id |-> GetResults(outcome.body)[1], cache |-> GetResults(outcome.body)[1],
          reqs |-> <<"GET">>]

\* the status of the lookup response is not checked
GetSocialSetId_AnyStatus(cached, outcome) ==
    IF Truthy(cached)
    THEN [id |-> cached, cache |-> cached, reqs |-> <<>>]
    ELSE IF outcome.raises \/ ~outcome.body.json_ok \/ GetResults(outcome.body) = <<>>
    THEN [id |-> None, cache |-> cached, reqs |-> <<"GET">>]
    ELSE [id |-> GetResults(outcome.body)[1], cache |-> GetResults(outcome.body)[1],
          reqs |-> <<"GET">>]

\* a lookup that failed is made a second time
GetSocialSetId_RetryOnFailure(cached, outcome) ==
    IF Truthy(cached)
    THEN [id |-> cached, cache |-> cached, reqs |-> <<>>]
    ELSE IF LookupRaises(outcome) \/ outcome.status # 200 \/ GetResults(outcome.body) = <<>>
    THEN [id |-> None, cache |-> cached, reqs |-> <<"GET", "GET">>]
    ELSE [id |-> GetResults(outcome.body)[1], cache |-> GetResults(outcome.body)[1],
          reqs |-> <<"GET">>]

\* _get_social_set_id: the identifier returned, self.social_set_id afterwards,
\* the requests made.  An element of results is the value of its 'id' key,
\* None when it has none.
GetSocialSetId(cached, outcome) ==
    IF Truthy(cached)
    THEN [id |-> cached, cache |-> cached, reqs |-> <<>>]
    ELSE IF LookupRaises(outcome) \/ outcome.status # 200 \/ GetResults(outcome.body) = <<>>
    THEN [id |-> None, cache |-> cached, reqs |-> <<"GET">>]
    ELSE [id |-> GetResults(outcome.body)[1], cache |-> GetResults(outcome.body)[1],
          reqs |-> <<"GET">>]

DRAFT_URL == <<"https://typefully.com/drafts/">>

\* draft_id is passed on as data.get('id') gave it, without a default or str()
DraftCreated_RawId(fields, publish_at) ==
    LET draft_id == IF "id" \in DOMAIN fields THEN fields["id"] ELSE None
    IN  [success |-> TRUE, url |-> DRAFT_URL \o PyStr(draft_id), draft_id |-> draft_id,
         scheduled_time |-> publish_at, error_msg |-> None]

\* lines 163-174: the result for a draft the service created
DraftCreated(fields, publish_at) ==
    LET draft_id == IF "id" \in DOMAIN fields THEN fields["id"] ELSE <<"unknown">>
    IN  [success |-> TRUE, url |-> DRAFT_URL \o PyStr(draft_id), draft_id |-> PyStr(draft_id),
         scheduled_time |-> publish_at, error_msg |-> None]

\* lines 176-187: the message for a response that is not 200 / 201
ErrorMessage(status, body) ==
    LET base == <<"Typefully API error: ">> \o IntToStr(status)
    IN  IF body.json = "invalid" THEN base \o <<" - ">> \o body.text
        ELSE IF body.json # "object" THEN base
        ELSE IF "error" \in DOMAIN body.fields
             THEN <<"Typefully error: ">> \o PyStr(body.fields["error"])
        ELSE IF "message" \in DOMAIN body.fields
             THEN <<"Typefully error: ">> \o PyStr(body.fields["message"])
        ELSE IF "detail" \in DOMAIN body.fields
             THEN <<"Typefully error: ">> \o PyStr(body.fields["detail"])
        ELSE base

\* the statuses taken for success
SuccessStatus_Only200(status) == status = 200

\* line 161: response.status_code in (200, 201)
SuccessStatus(status) == status \in {200, 201}

\* lines 154-199: the POST and the result made of its outcome.  response.json()
\* of a body that is not JSON raises JSONDecodeError, a RequestException or
\* not according to the requests release (body.decode_error); data.get on a
\* JSON value that is no object raises AttributeError.
PostDraft(outcome, publish_at) ==
    IF outcome.raises = "timeout" THEN Failure(<<"Typefully API timeout">>)
    ELSE IF outcome.raises = "request" THEN Failure(<<"Request failed: ">> \o outcome.text)
    ELSE IF outcome.raises = "other" THEN Failure(<<"Unexpected error: ">> \o outcome.text)
    ELSE IF SuccessStatus(outcome.status)
    THEN IF outcome.body.json = "invalid"
         THEN IF outcome.body.decode_error = "request"
              THEN Failure(<<"Request failed: ">> \o <<"JSONDecodeError">>)
              ELSE Failure(<<"Unexpected error: ">> \o <<"JSONDecodeError">>)
         ELSE IF outcome.body.json # "object"
         THEN Failure(<<"Unexpected error: ">> \o <<"AttributeError">>)
         ELSE DraftCreated(outcome.body.fields, publish_at)
    ELSE Failure(ErrorMessage(outcome.status, outcome.body))

\* publish: the result, self.social_set_id afterwards, the requests made and
\* the publish_at of the payload (None when no draft request was made)
Publish(content, cached, now_flag, delay, lookup, post, now_ms) ==
    IF ContentIsEmpty(content)
    THEN [result |-> Failure(<<"Content is empty">>), cache |-> cached, reqs |-> <<>>,
          publish_at |-> None]
    ELSE LET got == GetSocialSetId(cached, lookup)
         IN  IF ~Truthy(got.id)
             THEN [result |-> Failure(<<"Failed to get social set ID">>),
                   cache |-> got.cache, reqs |-> got.reqs, publish_at |-> None]
             ELSE [result |-> PostDraft(post, PublishAt(now_flag, now_ms, delay)),
                   cache |-> got.cache, reqs |-> Append(got.reqs, "POST"),
                   publish_at |-> PublishAt(now_flag, now_ms, delay)]

(* Inputs of publish *)

Contents ==
    {None, <<>>, <<" ", "\n", "\t">>, <<"h", "i">>, <<" ", "h", "i", "\n">>}

LookupBody(json_ok, has_results, results) ==
    [json_ok |-> json_ok, has_results |-> has_results, results |-> results]
LookupResponse(status, body) == [raises |-> FALSE, status |-> status, body |-> body]

LookupOutcomes ==
    {[raises |-> TRUE, status |-> 0, body |-> LookupBody(FALSE, FALSE, <<>>)],
     LookupResponse(500, LookupBody(TRUE, TRUE, <<<<"s", "1">>>>)),
     LookupResponse(401, LookupBody(FALSE, FALSE, <<>>)),
     LookupResponse(200, LookupBody(FALSE, FALSE, <<>>)),
     LookupResponse(200, LookupBody(TRUE, FALSE, <<>>)),
     LookupResponse(200, LookupBody(TRUE, TRUE, <<>>)),
     LookupResponse(200, LookupBody(TRUE, TRUE, <<None>>)),
     LookupResponse(200, LookupBody(TRUE, TRUE, <<<<>>, <<"s", "1">>>>)),
     LookupResponse(200, LookupBody(TRUE, TRUE, <<<<"s", "1">>>>)),
     LookupResponse(200, LookupBody(TRUE, TRUE, <<<<"s", "2">>, <<"s", "1">>>>))}

NoFields == [k \in {} |-> None]
JsonObject(fields) == [json |-> "object", fields |-> fields, text |-> <<"{..}">>,
                       decode_error |-> "request"]
JsonList == [json |-> "list", fields |-> NoFields, text |-> <<"[]">>,
             decode_error |-> "request"]
NotJson(text, decode_error) == [json |-> "invalid", fields |-> NoFields, text |-> text,
                                decode_error |-> decode_error]
PostRaises(kind) == [raises |-> kind, text |-> <<"boom">>, status |-> 0, body |-> JsonList]
PostResponse(status, body) == [raises |-> "none", text |-> <<>>, status |-> status,
                               body |-> body]

PostOutcomes ==
    {PostRaises("timeout"), PostRaises("request"), PostRaises("other"),
     PostResponse(200, JsonObject([id |-> <<"d", "1">>])),
     PostResponse(201, JsonObject([id |-> <<"d", "2">>, message |-> <<"o", "k">>])),
     PostResponse(201, JsonObject(NoFields)),
     PostResponse(200, JsonObject([id |-> None])),
     PostResponse(200, NotJson(<<"O", "K">>, "request")),
     PostResponse(201, NotJson(<<>>, "other")),
     PostResponse(200, JsonList),
     PostResponse(204, NotJson(<<>>, "request")),
     PostResponse(202, JsonObject([id |-> <<"d", "3">>])),
     PostResponse(429, JsonObject([message |-> <<"rate limited">>])),
     PostResponse(400, JsonObject([error |-> <<"bad">>, message |-> <<"m">>,
                                   detail |-> <<"d">>])),
     PostResponse(422, JsonObject([detail |-> <<"d">>, message |-> <<"m">>])),
     PostResponse(403, JsonObject([detail |-> None])),
     PostResponse(404, JsonObject(NoFields)),
     PostResponse(500, NotJson(<<"oops">>, "request")),
     PostResponse(503, JsonList)}

\* the UTC clock, in milliseconds: midnight, and the last half second before
\* midnight in UTC+8
Clock == {0, 57599500}

InitPub ==
    /\ social_set_id = None
    /\ publish_now \in BOOLEAN
    /\ hours_delay \in 0..MaxHoursDelay
    /\ calls = 0
    /\ call = NoCall
    /\ sd = SDIdle
    /\ SumIdle
    /\ ExtIdle

\* a request that is not made has no outcome
NoLookup == [raises |-> TRUE, status |-> -1, body |-> LookupBody(FALSE, FALSE, <<>>)]
NoPost == [raises |-> "other", text |-> <<>>, status |-> -1, body |-> JsonList]

Requests(content, cached, lookup) ==
    Publish(content, cached, TRUE, 0, lookup, NoPost, 0).reqs

Has(reqs, method) == \E k \in 1..Len(reqs) : reqs[k] = method

\* one call of publish; the service answers the requests the call makes
CallPublish ==
    /\ calls < MaxPublishCalls
    /\ \E content \in Contents :
       \E lookup \in IF Has(Requests(content, social_set_id, NoLookup), "GET")
                     THEN LookupOutcomes ELSE {NoLookup} :
       \E post \in IF Has(Requests(content, social_set_id, lookup), "POST")
                   THEN PostOutcomes ELSE {NoPost} :
       \E now_ms \in IF Has(Requests(content, social_set_id, lookup), "POST") /\ ~publish_now
                     THEN Clock ELSE {0} :
          LET r == Publish(content, social_set_id, publish_now, hours_delay,
                           lookup, post, now_ms)
          IN  /\ social_set_id' = r.cache
              /\ call' = [made |-> TRUE, content |-> content, lookup |-> lookup,
                          post |-> post, now_ms |-> now_ms, reqs |-> r.reqs,
                          publish_at |-> r.publish_at, result |-> r.result]
    /\ calls' = calls + 1
    /\ UNCHANGED <<publish_now, hours_delay, sd, sumVars, extVars>>

NextPub == CallPublish

SpecPub == InitPub /\ [][NextPub]_vars

-----------------------------------------------------------------------------
(* Web3AlertsScraper.get_latest_projects *)

\* an item's days_since_discovery: <<n>> when the key is there, <<>> when it is not
NoDays == <<>>

\* x.get('days_since_discovery', float('inf'))
SortKey_MissingIsZero(x) ==
    IF x.days_since_discovery = NoDays
    THEN [inf |-> FALSE, v |-> 0]
    ELSE [inf |-> FALSE, v |-> x.days_since_discovery[1]]

SortKey(x) ==
    IF x.days_since_discovery = NoDays
    THEN [inf |-> TRUE, v |-> 0]
    ELSE [inf |-> FALSE, v |-> x.days_since_discovery[1]]

\* a < b on sort keys; float('inf') is less than nothing
KeyLess(a, b) == IF a.inf THEN FALSE ELSE (b.inf \/ a.v < b.v)

\* x put into a sorted list behind every element that is not greater than it
Insert(sorted, x) ==
    LET n == Cardinality({k \in 1..Len(sorted) :
                            ~KeyLess(SortKey(x), SortKey(sorted[k]))})
    IN  SubSeq(sorted, 1, n) \o <<x>> \o SubSeq(sorted, n + 1, Len(sorted))

\* sorted(projects, key=...): ascending and stable
RECURSIVE Sorted(_)
Sorted(items) ==
    IF items = <<>> THEN <<>>
    ELSE Insert(Sorted(SubSeq(items, 1, Len(items) - 1)), items[Len(items)])

\* what get_new_projects gives: it raises (transport error, raise_for_status,
\* response.json()) or returns the parsed list
FetchFails == [ok |-> FALSE, items |-> <<>>]
Fetched(items) == [ok |-> TRUE, items |-> items]

\* a failed fetch is taken for an empty collection
GetLatestProjects_SwallowsFailure(fetch, count) ==
    IF ~fetch.ok
    THEN [raised |-> FALSE, result |-> <<>>]
    ELSE [raised |-> FALSE, result |-> Take(Sorted(fetch.items), count)]

\* the whole of get_latest_projects, for count >= 0
GetLatestProjects(fetch, count) ==
    IF ~fetch.ok
    THEN [raised |-> TRUE, result |-> <<>>]
    ELSE [raised |-> FALSE, result |-> Take(Sorted(fetch.items), count)]

RawItem(k, days) == [project_name |-> k, days_since_discovery |-> days]

DaysValues == {NoDays} \cup {<<d>> : d \in 0..MaxDays}

\* item k of a fetched collection is named k
RawLists ==
    {[k \in 1..Len(ds) |-> RawItem(k, ds[k])] :
        ds \in UNION {[1..n -> DaysValues] : n \in 0..MaxItems}}

FetchOutcomes == {FetchFails} \cup {Fetched(items) : items \in RawLists}

InitLatest ==
    /\ latest \in [fetch : FetchOutcomes, count : 0..MaxCount, done : {FALSE},
                   raised : {FALSE}, result : {<<>>}]
    /\ fmt = FmtIdle /\ run = RunIdle
    /\ sd = SDIdle
    /\ SumIdle
    /\ PubIdle

CallGetLatestProjects ==
    /\ ~latest.done
    /\ LET r == GetLatestProjects(latest.fetch, latest.count)
       IN  latest' = [latest EXCEPT !.done = TRUE, !.raised = r.raised,
                                    !.result = r.result]
    /\ UNCHANGED <<sd, sumVars, pubVars, fmt, run>>

NextLatest == CallGetLatestProjects

SpecLatest == InitLatest /\ [][NextLatest]_vars

-----------------------------------------------------------------------------
(* main.format_tweet *)

MONTHS == <<"Jan", "Feb", "Mar", "Apr", "May", "Jun",
            "Jul", "Aug", "Sep", "Oct", "Nov", "Dec">>

\* datetime.now().strftime("%b %d")
Today(date) == <<MONTHS[date.month], " ">> \o Pad2(date.day)

\* project.get(key, default) for a key the dict may lack
GetOr(value, default) == IF value = Absent THEN default ELSE value

\* lines 45-58: the line of the project at 1-based position i
FormatLine(i, project) ==
    LET name == GetOr(project.project_name, <<"Unknown">>)
        handle == GetOr(project.handle, <<>>)
        summary == GetOr(project.summary, <<>>)
        line == IF Truthy(handle)
                THEN IntToStr(i) \o <<" ">> \o PyStr(name)
                                 \o <<" ", "(", "@">> \o handle \o <<")">>
                ELSE IntToStr(i) \o <<" ">> \o PyStr(name)
    IN  IF Truthy(summary) THEN line \o <<":", " ">> \o summary ELSE line

FormatTweet_SingleNewline(project_list, today) ==
    Join(<<<<"Early web3 projects (">> \o today \o <<")">>>>
            \o [k \in 1..Len(project_list) |-> FormatLine(k, project_list[k])],
         <<"\n">>)

\* the whole of format_tweet, today being what strftime gave
FormatTweet(project_list, today) ==
    Join(<<<<"Early web3 projects (">> \o today \o <<")">>>>
            \o [k \in 1..Len(project_list) |-> FormatLine(k, project_list[k])],
         <<"\n", "\n">>)

FmtNames == {Absent, <<"A", "b">>}
FmtHandles == {Absent, <<>>, <<"h">>}
FmtSummaries == {Absent, <<>>, <<"s", " ", "t">>}

FmtProjects == [project_name : FmtNames, handle : FmtHandles, summary : FmtSummaries]

FmtLists == UNION {[1..n -> FmtProjects] : n \in 0..MaxProjects}

Dates == {[month |-> 1, day |-> 5], [month |-> 11, day |-> 30]}

InitFmt ==
    /\ fmt \in [projects : FmtLists, today : {Today(d) : d \in Dates},
                done : {FALSE}, text : {<<>>}]
    /\ latest = LatestIdle /\ run = RunIdle
    /\ sd = SDIdle
    /\ SumIdle
    /\ PubIdle

CallFormatTweet ==
    /\ ~fmt.done
    /\ fmt' = [fmt EXCEPT !.done = TRUE, !.text = FormatTweet(fmt.projects, fmt.today)]
    /\ UNCHANGED <<sd, sumVars, pubVars, latest, run>>

NextFmt == CallFormatTweet

SpecFmt == InitFmt /\ [][NextFmt]_vars

-----------------------------------------------------------------------------
(* config.validate_config and main.run_bot *)

\* placeholder keys pass
ValidateConfig_NoPlaceholderCheck(cfg) ==
    /\ Truthy(cfg.TYPEFULLY_API_KEY)
    /\ Truthy(cfg.GEMINI_API_KEY)
    /\ cfg.cookies # "missing"

\* config.validate_config: no error is collected
ValidateConfig(cfg) ==
    /\ ~(~Truthy(cfg.TYPEFULLY_API_KEY)
            \/ StartsWith(cfg.TYPEFULLY_API_KEY, <<"y", "o", "u", "r", "_">>))
    /\ ~(~Truthy(cfg.GEMINI_API_KEY)
            \/ StartsWith(cfg.GEMINI_API_KEY, <<"y", "o", "u", "r", "_">>))
    /\ cfg.cookies # "missing"

\* os.getenv of a key: unset, empty, the placeholder of the sample file, a key
ApiKeys ==
    {None, <<>>, <<"y", "o", "u", "r", "_", "k", "e", "y">>, <<"y", "o", "u", "r">>,
     <<"k", "1">>}

\* the cookie file: not there, there but not the JSON open/json.load/the loop
\* of load_cookies expect, or loadable
CookieFiles == {"missing", "malformed", "ok"}

ProjectCounts == {0, 1, 10}
SummaryMaxWords == {1, 10}
HoursDelays == {6}

\* the day of the run
RunDates == {[month |-> 11, day |-> 4]}

Configs ==
    [TYPEFULLY_API_KEY : ApiKeys, GEMINI_API_KEY : ApiKeys, cookies : CookieFiles,
     PROJECTS_COUNT : ProjectCounts, SUMMARY_MAX_WORDS : SummaryMaxWords,
     TYPEFULLY_HOURS_DELAY : HoursDelays, publish_now : BOOLEAN]

\* one dict of the fetched list
RunItem(name, handle, description, days) ==
    [project_name |-> name, handle |-> handle, description |-> description,
     days_since_discovery |-> days, summary |-> Absent]

\* what the record source answers to the fetch of a run
RunFetchOutcomes ==
    {FetchFails,
     Fetched(<<>>),
     Fetched(<<RunItem(<<"A">>, <<"h">>, Phrase(0, 1, 20, 1, 0), <<1>>)>>),
     Fetched(<<RunItem(<<"B">>, Absent, Phrase(1, 3, 9, 2, 1), NoDays),
               RunItem(Absent, <<>>, <<" ", "a", "b", " ">>, <<0>>)>>)}

\* what the publishing service answers in a run
RunLookupOutcomes ==
    {[raises |-> TRUE, status |-> 0, body |-> LookupBody(FALSE, FALSE, <<>>)],
     LookupResponse(200, LookupBody(TRUE, TRUE, <<<<"s", "1">>>>))}

RunPostOutcomes ==
    {PostRaises("timeout"),
     PostResponse(201, JsonObject([id |-> <<"d", "2">>, message |-> <<"o", "k">>])),
     PostResponse(429, JsonObject([error |-> <<"s", "l", "o", "w">>]))}

\* every end of the run is a failure
Exit_AlwaysOne(r, code) == [r EXCEPT !.pc = "done", !.status = 1]

\* sys.exit(code), or the return of run_bot
Exit(r, code) == [r EXCEPT !.pc = "done", !.status = code]

\* a success result always exits 0
PublishExit_AlwaysZero(result) == 0

\* lines 126-136
PublishExit(result) == IF result.success THEN 0 ELSE 1

InitRun ==
    /\ run \in [pc : {"start"}, cfg : Configs, status : {0}, fetches : {0},
                fetch : {FetchFails}, tweet : {<<>>}]
    /\ latest = LatestIdle /\ fmt = FmtIdle
    /\ sd = SDIdle
    /\ SumIdle
    /\ PubIdle

\* lines 81-83
RunValidate ==
    /\ run.pc = "start"
    /\ run' = IF ValidateConfig(run.cfg) THEN [run EXCEPT !.pc = "validated"]
              ELSE Exit(run, 1)
    /\ UNCHANGED <<sd, sumVars, pubVars, latest, fmt>>

\* line 87: the constructor loads the cookies; what it raises reaches line 138
RunInitScraper ==
    /\ run.pc = "validated"
    /\ run' = IF run.cfg.cookies = "ok" THEN [run EXCEPT !.pc = "scraper_ready"]
              ELSE Exit(run, 1)
    /\ UNCHANGED <<sd, sumVars, pubVars, latest, fmt>>

\* lines 91-108, up to the call of summarize_projects
RunFetch ==
    /\ run.pc = "scraper_ready"
    /\ \E fetch \in RunFetchOutcomes :
          LET r == GetLatestProjects(fetch, run.cfg.PROJECTS_COUNT)
              fetched == [run EXCEPT !.fetches = @ + 1, !.fetch = fetch]
          IN  IF r.raised
              THEN run' = Exit(fetched, 1) /\ UNCHANGED sumVars
              ELSE IF r.result = <<>>
              THEN run' = Exit(fetched, 0) /\ UNCHANGED sumVars
              ELSE /\ run' = [fetched EXCEPT !.pc = "summarizing"]
                   /\ projects' = r.result
                   /\ projects0' = r.result
                   /\ max_words' = run.cfg.SUMMARY_MAX_WORDS
                   /\ pc' = "entry"
                   /\ UNCHANGED <<idx, summaries, log>>
    /\ UNCHANGED <<sd, pubVars, latest, fmt>>

\* line 111, or line 138 when summarize_projects raised
RunFormat ==
    /\ run.pc = "summarizing"
    /\ pc \in {"returned", "raised"}
    /\ \E date \in RunDates :
          run' = IF pc = "raised" THEN Exit(run, 1)
                 ELSE [run EXCEPT !.pc = "formatted",
                                  !.tweet = FormatTweet(projects, Today(date))]
    /\ UNCHANGED <<sd, sumVars, pubVars, latest, fmt>>

\* lines 116-136: a new publisher, one publish call, the exit status
RunPublish ==
    /\ run.pc = "formatted"
    /\ publish_now' = run.cfg.publish_now
    /\ hours_delay' = run.cfg.TYPEFULLY_HOURS_DELAY
    /\ \E lookup \in IF Has(Requests(run.tweet, None, NoLookup), "GET")
                     THEN RunLookupOutcomes ELSE {NoLookup} :
       \E posts \in {Has(Requests(run.tweet, None, lookup), "POST")} :
       \E post \in IF posts THEN RunPostOutcomes ELSE {NoPost} :
       \E now_ms \in IF posts /\ ~run.cfg.publish_now THEN Clock ELSE {0} :
       \E r \in {Publish(run.tweet, None, run.cfg.publish_now,
                         run.cfg.TYPEFULLY_HOURS_DELAY, lookup, post, now_ms)} :
          /\ social_set_id' = r.cache
          /\ call' = [made |-> TRUE, content |-> run.tweet, lookup |-> lookup,
                      post |-> post, now_ms |-> now_ms, reqs |-> r.reqs,
                      publish_at |-> r.publish_at, result |-> r.result]
          /\ run' = Exit(run, PublishExit(r.result))
    /\ calls' = calls + 1
    /\ UNCHANGED <<sd, sumVars, latest, fmt>>

NextRun ==
    \/ RunValidate
    \/ RunInitScraper
    \/ RunFetch
    \/ BatchRequest
    \/ BatchLoopStep
    \/ BatchLoopReturn
    \/ FallbackLoopStep
    \/ FallbackLoopReturn
    \/ RunFormat
    \/ RunPublish

SpecRun == InitRun /\ [][NextRun]_vars

\* a run is one thread of control: it goes on until it exits
SpecRunFair == SpecRun /\ WF_vars(NextRun)

-----------------------------------------------------------------------------
(* C1: no exception escapes summarize_projects, whatever the batch request
   and the single-item requests do: the call never ends by raising, and a
   loop of it that has run over every record returns. *)
C1_NoExceptionEscapes ==
    /\ pc # "raised"
    /\ pc \in {"batch_loop", "fallback_loop"} => idx <= Len(projects)

Events(op) == {k \in 1..Len(log) : log[k].op = op}

\* returned after a failed batch request and two failed single-item requests
C1_Witness ==
    /\ pc = "returned"
    /\ \E k \in Events("batch") : ~log[k].ok
    /\ Cardinality({k \in Events("single") : ~log[k].ok}) = 2

(* C2: when summarize_projects has returned, the list holds the records it was
   given, in the same order and number, and every record has a summary. *)
C2_SameRecordsAllSummarized ==
    pc = "returned" =>
        /\ Len(projects) = Len(projects0)
        /\ \A k \in 1..Len(projects) :
              /\ projects[k].project_name = projects0[k].project_name
              /\ projects[k].description = projects0[k].description
              /\ projects[k].summary \notin {Absent, None}

\* a batch response with fewer usable lines than records, the rest summarized one by one
C2_Witness ==
    /\ pc = "returned"
    /\ \E k \in Events("batch") : log[k].ok
    /\ Len(summaries) = 1
    /\ Len(projects) = 2
    /\ projects[1].summary = summaries[1]
    /\ Events("single") # {}

(* C3: any two consecutive single-item requests are separated by a sleep of
   at least RATE_LIMIT_DELAY, on the path after a batch response as on the
   path after a failed batch request. *)
C3_SleepBetweenSingleRequests ==
    \A a, b \in Events("single") :
        (a < b /\ \A k \in (a + 1)..(b - 1) : log[k].op # "single") =>
            \E k \in (a + 1)..(b - 1) :
                log[k].op = "sleep" /\ log[k].dur >= RATE_LIMIT_DELAY

(* C4: a description that is empty, None, or shorter than 20 characters once
   trimmed comes back trimmed (the empty string for None), and no request is
   made to the text-generation service. *)
NonBlank(s) == {k \in 1..Len(s) : s[k] \notin WS}

TrimmedLen(s) ==
    IF NonBlank(s) = {} THEN 0 ELSE SetMax(NonBlank(s)) - SetMin(NonBlank(s)) + 1

IsTrimOf(v, s) ==
    /\ Len(v) = TrimmedLen(s)
    /\ \A k \in 1..Len(v) : v[k] = s[SetMin(NonBlank(s)) + k - 1]

ShortDescription(s) == s = None \/ TrimmedLen(s) < MIN_DESCRIPTION_LEN

C4_ShortDescriptionNoServiceCall ==
    (sd.done /\ ShortDescription(sd.description)) =>
        /\ ~sd.called
        /\ ~sd.raised
        /\ IF sd.description = None THEN sd.value = <<>>
                                    ELSE IsTrimOf(sd.value, sd.description)

\* 19 characters between a leading space and a trailing newline: 21 untrimmed
C4_Witness ==
    /\ sd.done
    /\ sd.description # None
    /\ Len(sd.description) > MIN_DESCRIPTION_LEN
    /\ Len(sd.value) = MIN_DESCRIPTION_LEN - 1
    /\ ~sd.called

(* C5: when the request fails for a description of at least 20 characters,
   the result is the first max_words words of the description joined by single
   spaces and followed by "..." if the description has more than max_words
   words, and the description itself, unchanged, otherwise. *)
C5_FailureTruncates ==
    (sd.done /\ ~ShortDescription(sd.description) /\ (sd.outcome.raises \/ sd.outcome.text = None)) =>
        LET words == Split(sd.description)
        IN  /\ sd.called
            /\ IF Len(words) > sd.max_words
               THEN sd.value = Join(SubSeq(words, 1, sd.max_words), <<" ">>)
                                   \o <<".", ".", ".">>
               ELSE sd.value = sd.description

\* three of four words kept, the double spaces between them collapsed
C5_Witness ==
    /\ sd.done
    /\ sd.outcome.raises
    /\ sd.max_words = 3
    /\ Len(Split(sd.description)) = 4
    /\ Len(sd.description) > Len(Strip(sd.description))
    /\ sd.value = Join(<<Chars("a", 9), Chars("a", 9), Chars("a", 9)>>, <<" ">>) \o ELLIPSIS

(* C6: publish with content that is None, empty or only whitespace returns a
   failure, makes neither the lookup GET nor the draft POST, and leaves the
   cached destination identifier as it was. *)
Blank(content) == content = None \/ \A k \in 1..Len(content) : content[k] \in WS

C6_EmptyContentNoNetwork ==
    [][(call'.made /\ Blank(call'.content)) =>
           /\ ~call'.result.success
           /\ call'.reqs = <<>>
           /\ social_set_id' = social_set_id]_vars

\* whitespace-only content, on an instance whose identifier an earlier call cached
C6_Witness ==
    /\ call.made
    /\ call.content = <<" ", "\n", "\t">>
    /\ ~call.result.success
    /\ calls = 2
    /\ social_set_id = <<"s", "1">>

(* C7: when the lookup made by a publish call raises, answers with a status
   other than 200, or names no candidate, the call returns a failure and makes
   no draft POST. *)
LookupFailed(lookup) ==
    \/ lookup.raises
    \/ lookup.status # 200
    \/ ~lookup.body.json_ok
    \/ ~lookup.body.has_results
    \/ lookup.body.results = <<>>

C7_FailedLookupNoPost ==
    (call.made /\ Has(call.reqs, "GET") /\ LookupFailed(call.lookup)) =>
        /\ ~call.result.success
        /\ ~Has(call.reqs, "POST")

\* a lookup answered 500 with a body that does name a candidate
C7_Witness ==
    /\ call.made
    /\ call.reqs = <<"GET">>
    /\ call.lookup.status = 500
    /\ call.lookup.body.results # <<>>
    /\ ~call.result.success

(* C8: once a lookup has given the instance its destination identifier, no
   later publish call makes a lookup request and the identifier never changes. *)
C8_IdentifierCached ==
    [][Truthy(social_set_id) =>
           /\ social_set_id' = social_set_id
           /\ call'.made => ~Has(call'.reqs, "GET")]_vars

\* a second call that posts a draft without a lookup
C8_Witness ==
    /\ calls = 2
    /\ call.made
    /\ call.reqs = <<"POST">>
    /\ Truthy(social_set_id)

(* C9: every result of publish has, when success is true, a url and a draft
   identifier and no error message, and when success is false an error
   message. *)
C9_ResultShape ==
    call.made =>
        IF call.result.success
        THEN /\ call.result.url # None
             /\ call.result.draft_id # None
             /\ call.result.error_msg = None
        ELSE call.result.error_msg # None

\* a draft created by a response that carries no id
C9_Witness ==
    /\ call.made
    /\ call.result.success
    /\ call.post.body.fields = NoFields
    /\ call.result.draft_id = <<"unknown">>

(* C10 as claimed: whenever the draft POST is answered with status 200 or 201
   the result is a success whose draft identifier is the response's and whose
   url is derived from it; with any other status the result is a failure. *)
Answered(c) == c.made /\ Has(c.reqs, "POST") /\ c.post.raises = "none"

C10_Original ==
    Answered(call) =>
        IF call.post.status \in {200, 201}
        THEN /\ call.result.success
             /\ "id" \in DOMAIN call.post.body.fields =>
                    call.result.draft_id = PyStr(call.post.body.fields["id"])
             /\ call.result.url = <<"https://typefully.com/drafts/">> \o call.result.draft_id
        ELSE ~call.result.success

(* C10 amended: whenever the draft POST is answered with status 200 or 201 and
   a body that is a JSON object, the result is a success whose draft
   identifier is the string of the body's id ("unknown" when it has none) and
   whose url is the drafts address followed by that identifier; a 200 or 201
   answer whose body is not a JSON object, and an answer with any other
   status, give a failure. *)
C10_SuccessOn200Or201Object ==
    Answered(call) =>
        IF call.post.status \in {200, 201} /\ call.post.body.json = "object"
        THEN /\ call.result.success
             /\ call.result.draft_id =
                    (IF "id" \in DOMAIN call.post.body.fields
                     THEN PyStr(call.post.body.fields["id"]) ELSE <<"unknown">>)
             /\ call.result.url = <<"https://typefully.com/drafts/">> \o call.result.draft_id
        ELSE ~call.result.success

\* status 201 and an id in the body
C10_Witness ==
    /\ Answered(call)
    /\ call.post.status = 201
    /\ call.result.success
    /\ call.result.draft_id = <<"d", "2">>
    /\ call.result.url = <<"https://typefully.com/drafts/", "d", "2">>

(* C11: for a draft POST answered with a status other than 200 / 201 the
   failure message contains the value of the body's "error" field if it has
   one, else of "message", else of "detail", and contains the raw response
   text when none of the three can be extracted. *)
Contains(s, part) ==
    \E a \in 0..(Len(s) - Len(part)) : SubSeq(s, a + 1, a + Len(part)) = part

C11_ErrorMessageExtracted ==
    (Answered(call) /\ call.post.status \notin {200, 201}) =>
        LET fields == call.post.body.fields
            msg == call.result.error_msg
        IN  /\ ~call.result.success
            /\ IF "error" \in DOMAIN fields THEN Contains(msg, PyStr(fields["error"]))
               ELSE IF "message" \in DOMAIN fields THEN Contains(msg, PyStr(fields["message"]))
               ELSE IF "detail" \in DOMAIN fields THEN Contains(msg, PyStr(fields["detail"]))
               ELSE Contains(msg, call.post.body.text)

(* C12: one publish call makes at most one lookup GET and at most one draft
   POST, whatever their outcomes. *)
Count(reqs, method) == Cardinality({k \in 1..Len(reqs) : reqs[k] = method})

C12_SingleAttempt ==
    call.made => Count(call.reqs, "GET") <= 1 /\ Count(call.reqs, "POST") <= 1

\* a lookup and a draft request that timed out, and nothing after it
C12_Witness ==
    /\ call.made
    /\ call.reqs = <<"GET", "POST">>
    /\ call.post.raises = "timeout"
    /\ ~call.result.success

(* C13: the publish_at of every draft request is "now" in publish-now mode,
   whatever hours_delay is; otherwise it is the clock in UTC+8 plus hours_delay
   hours, to the second, followed by "+08:00". *)
DigitsValue(ds) ==
    LET val[k \in 0..Len(ds)] ==
            IF k = 0 THEN 0
            ELSE 10 * val[k - 1] + (CHOOSE d \in 0..9 : DIGITS[d + 1] = ds[k])
    IN  val[Len(ds)]

\* the seconds since the epoch, in UTC+8 wall-clock time, that a timestamp names
StampSeconds(at) ==
    LET n == Len(at)
    IN  DigitsValue(SubSeq(at, 2, n - 10)) * 86400
          + DigitsValue(SubSeq(at, n - 8, n - 7)) * 3600
          + DigitsValue(SubSeq(at, n - 5, n - 4)) * 60
          + DigitsValue(SubSeq(at, n - 2, n - 1))

C13_PublishAt ==
    (call.made /\ Has(call.reqs, "POST")) =>
        IF publish_now
        THEN call.publish_at = <<"now">>
        ELSE LET at == call.publish_at
                 n == Len(at)
             IN  /\ at[n] = "+08:00"
                 /\ at[n - 9] = "T" /\ at[n - 6] = ":" /\ at[n - 3] = ":"
                 /\ StampSeconds(at) =
                        (call.now_ms \div 1000) + 8 * 3600 + hours_delay * 3600

\* half a second before midnight in UTC+8, one hour of delay: 00:59:59 the next day
C13_Witness ==
    /\ call.made
    /\ Has(call.reqs, "POST")
    /\ ~publish_now
    /\ hours_delay = 1
    /\ call.now_ms = 57599500
    /\ call.publish_at = <<"day", "1", "T", "0", "0", ":", "5", "9", ":", "5", "9", "+08:00">>

(* C14: get_latest_projects returns at most count items, all of them items of
   the fetched collection, in ascending order of days_since_discovery, every
   item without a days_since_discovery behind all the items that have one. *)
C14_LatestSorted ==
    (latest.done /\ ~latest.raised) =>
        LET r == latest.result
            raw == latest.fetch.items
        IN  /\ Len(r) <= latest.count
            /\ \A k \in 1..Len(r) : \E j \in 1..Len(raw) : r[k] = raw[j]
            /\ \A i, j \in 1..Len(r) : i # j => r[i].project_name # r[j].project_name
            /\ \A i, j \in 1..Len(r) :
                  (i < j /\ r[j].days_since_discovery # NoDays) =>
                      /\ r[i].days_since_discovery # NoDays
                      /\ r[i].days_since_discovery[1] <= r[j].days_since_discovery[1]

\* three items fetched out of order, the first without the key, two asked for
C14_Witness ==
    /\ latest.done /\ ~latest.raised
    /\ latest.count = 2
    /\ Len(latest.fetch.items) = 3
    /\ latest.fetch.items[1].days_since_discovery = NoDays
    /\ latest.fetch.items[2].days_since_discovery = <<2>>
    /\ latest.fetch.items[3].days_since_discovery = <<0>>
    /\ latest.result = <<latest.fetch.items[3], latest.fetch.items[2]>>

\* the strings of a list one after the other, each behind a blank line
RECURSIVE AfterBlankLines(_)
AfterBlankLines(lines) ==
    IF lines = <<>> THEN <<>>
    ELSE <<"\n", "\n">> \o lines[1] \o AfterBlankLines(Tail(lines))

\* "{index} {name}", " (@{handle})" when there is a handle, ": {summary}" when
\* there is a summary
ClaimedLine(index, name, handle, summary) ==
    IntToStr(index) \o <<" ">> \o name
        \o (IF handle \in {Absent, <<>>} THEN <<>> ELSE <<" ", "(", "@">> \o handle \o <<")">>)
        \o (IF summary \in {Absent, <<>>} THEN <<>> ELSE <<":", " ">> \o summary)

(* C19: the text of format_tweet is one header line holding the date, then for
   the record at each position k, in input order, a blank line and the line
   "k name", "k name (@handle)" with a handle, each followed by ": summary"
   when the summary is not empty; there is nothing else in the text. *)
C19_FormatTweet ==
    fmt.done =>
        LET ps == fmt.projects
            header == <<"Early web3 projects (">> \o fmt.today \o <<")">>
            name(k) == IF ps[k].project_name = Absent THEN <<"Unknown">>
                       ELSE ps[k].project_name
        IN  /\ fmt.text = header \o AfterBlankLines(
                   [k \in 1..Len(ps) |-> ClaimedLine(k, name(k), ps[k].handle, ps[k].summary)])
            /\ Count(fmt.text, "\n") = 2 * Len(ps)
            /\ \A k \in 1..Len(header) : header[k] # "\n"

\* two records: the first with handle and summary, the second with neither
C19_Witness ==
    /\ fmt.done
    /\ Len(fmt.projects) = 2
    /\ fmt.projects[1] = [project_name |-> <<"A", "b">>, handle |-> <<"h">>,
                          summary |-> <<"s", " ", "t">>]
    /\ fmt.projects[2] = [project_name |-> Absent, handle |-> <<>>, summary |-> <<>>]
    /\ fmt.text = <<"Early web3 projects (", "Nov", " ", "3", "0", ")", "\n", "\n",
                    "1", " ", "A", "b", " ", "(", "@", "h", ")", ":", " ", "s", " ", "t",
                    "\n", "\n", "2", " ", "Unknown">>

\* the batch request of this call has failed
BatchFailed == Len(log) > 0 /\ log[1].op = "batch" /\ ~log[1].ok

\* what single-item summarization can give for a record
SingleSummaries(project) ==
    {SummarizeDescription(GetDescription(project), max_words, o).value : o \in SingleOutcomes}

(* C20: once the batch request has failed there is no other batch request and
   no summary of a batch response; the records are then summarized one by
   one from the first, in order, each step writing the single-item summary of
   its record only; every step but the first starts with a sleep of
   RATE_LIMIT_DELAY seconds, and the call returns after the last record. *)
C20_BatchFailureFallsBack ==
    [][/\ (pc = "entry" /\ pc' = "fallback_loop") =>
              BatchFailed' /\ idx' = 0 /\ projects' = projects
       /\ BatchFailed =>
              /\ pc' \in {"fallback_loop", "returned"}
              /\ summaries' = <<>>
              /\ Events("batch")' = {1}
       /\ (BatchFailed /\ pc = "fallback_loop" /\ pc' = "fallback_loop") =>
              /\ idx < Len(projects) /\ idx' = idx + 1
              /\ \E v \in SingleSummaries(projects[idx + 1]) :
                    projects' = [projects EXCEPT ![idx + 1].summary = v]
              /\ \E single \in {<<>>} \cup {<<SingleEvent(o)>> : o \in SingleOutcomes} :
                    log' = log \o (IF idx > 0 THEN <<SleepEvent(RATE_LIMIT_DELAY)>> ELSE <<>>)
                               \o single
       /\ (BatchFailed /\ pc = "fallback_loop" /\ pc' = "returned") =>
              idx = Len(projects) /\ projects' = projects /\ log' = log
      ]_vars

\* two records summarized one by one after a failed batch request
C20_Witness ==
    /\ pc = "returned" /\ BatchFailed
    /\ Len(projects) = 2
    /\ Len(log) = 4
    /\ log[2].op = "single" /\ log[3] = SleepEvent(RATE_LIMIT_DELAY) /\ log[4].op = "single"

\* a credential that is missing, or a placeholder
MissingOrPlaceholder(key) ==
    \/ key = None
    \/ key = <<>>
    \/ (Len(key) >= 5 /\ key[1] = "y" /\ key[2] = "o" /\ key[3] = "u" /\ key[4] = "r"
                      /\ key[5] = "_")

InvalidConfig ==
    \/ MissingOrPlaceholder(run.cfg.TYPEFULLY_API_KEY)
    \/ MissingOrPlaceholder(run.cfg.GEMINI_API_KEY)
    \/ run.cfg.cookies = "missing"

(* C15: in a run whose configuration has a missing or placeholder credential,
   or no cookie file, there is never a fetch, a summarization request, a
   lookup or a draft POST, and the run ends at validation with exit status 1. *)
C15_InvalidConfigNoNetwork ==
    InvalidConfig =>
        /\ run.fetches = 0
        /\ log = <<>>
        /\ ~call.made
        /\ run.pc \in {"start", "done"}
        /\ run.pc = "done" => run.status = 1

\* a run stopped by nothing but the placeholder of the summarization key
C15_Witness ==
    /\ run.pc = "done" /\ run.status = 1
    /\ run.cfg.TYPEFULLY_API_KEY = <<"k", "1">>
    /\ run.cfg.GEMINI_API_KEY = <<"y", "o", "u", "r", "_", "k", "e", "y">>
    /\ run.cfg.cookies = "ok"

\* the fetch of this run was made and failed
FetchFailed == run.fetches > 0 /\ ~run.fetch.ok

(* C16: when the fetch of a run has failed the run has ended with exit status
   1, having made that one fetch and no summarization request, no lookup and
   no draft POST. *)
C16_FetchFailureShortCircuits ==
    FetchFailed =>
        /\ run.pc = "done" /\ run.status = 1
        /\ run.fetches = 1
        /\ log = <<>>
        /\ ~call.made

C16_Witness ==
    /\ FetchFailed
    /\ ~InvalidConfig
    /\ run.pc = "done" /\ run.status = 1

(* C17: a run that has got at least one record from get_latest_projects goes
   on, whatever the summarization requests do, to call publish with the text
   of format_tweet, which is not empty; and such a run ends with exit status
   1 only when that publish call has returned a failure. *)
C17_SummarizationNeverAborts ==
    /\ (run.pc = "summarizing") ~>
           (call.made /\ call.content = run.tweet /\ ~ContentIsEmpty(call.content))
    /\ []((run.pc = "done" /\ run.status = 1 /\ Len(projects) > 0) =>
              (call.made /\ ~call.result.success))

\* a run that has published although every summarization request failed
C17_Witness ==
    /\ run.pc = "done" /\ run.status = 0
    /\ call.made /\ call.result.success
    /\ BatchFailed
    /\ Events("single") # {}
    /\ \A k \in Events("single") : ~log[k].ok

(* C18: a run that has ended has exit status 1 when its configuration is
   invalid, an exception was raised in a stage (the cookies cannot be loaded,
   the fetch fails, summarize_projects raises) or publish returned a
   failure, and exit status 0 in every other case. *)
C18_ExitStatus ==
    run.pc = "done" =>
        run.status = IF \/ InvalidConfig
                        \/ run.cfg.cookies = "malformed"
                        \/ FetchFailed
                        \/ pc = "raised"
                        \/ (call.made /\ ~call.result.success)
                     THEN 1 ELSE 0

\* a run that fails at the draft POST only
C18_Witness ==
    /\ run.pc = "done" /\ run.status = 1
    /\ call.made /\ call.reqs = <<"GET", "POST">> /\ call.post.status = 429
    /\ ~call.result.success

\* the batch request of this call was answered and its response parsed
BatchParsed ==
    Len(log) > 0 /\ log[1].op = "batch" /\ log[1].ok /\ pc \in {"batch_loop", "returned"}

(* C21: after a batch response parsed into k summaries, none of them empty,
   the loop takes the records in order: the record at a position below k gets
   the parsed summary of its position, with no single-item request and no
   other change; a record at a later position gets the single-item summary
   of that record, with at most the one request of that step; the batch path
   is not left, and at the return the first k records still hold the parsed
   summaries of their positions. *)
C21_PositionalAssignment ==
    [][BatchParsed =>
          /\ summaries' = summaries
          /\ \A k \in 1..Len(summaries) : summaries[k] \notin {<<>>, None, Absent}
          /\ pc' \in {"batch_loop", "returned"}
          /\ (pc = "batch_loop" /\ pc' = "batch_loop") =>
                /\ idx < Len(projects) /\ idx' = idx + 1
                /\ IF idx < Len(summaries)
                   THEN /\ projects' = [projects EXCEPT ![idx + 1].summary = summaries[idx + 1]]
                        /\ log' = log
                   ELSE /\ \E v \in SingleSummaries(projects[idx + 1]) :
                              projects' = [projects EXCEPT ![idx + 1].summary = v]
                        /\ \E single \in {<<>>} \cup {<<SingleEvent(o)>> : o \in SingleOutcomes} :
                              log' = log \o single
          /\ pc' = "returned" =>
                /\ idx = Len(projects) /\ projects' = projects /\ log' = log
                /\ \A k \in 1..Len(projects) :
                      k <= Len(summaries) => projects[k].summary = summaries[k]
                /\ Cardinality(Events("single")) <= Len(projects)
                /\ Len(summaries) <= Len(projects) =>
                      Cardinality(Events("single")) <= Len(projects) - Len(summaries)
      ]_vars

\* a response of two lines, the first unusable: the line numbered 2 is the
\* summary of the first record, the second record is summarized on its own
C21_Witness ==
    /\ pc = "returned" /\ BatchParsed
    /\ Len(projects) = 2
    /\ summaries = <<<<"b">>>>
    /\ projects[1].summary = <<"b">>
    /\ Len(log) = 2 /\ log[2].op = "single"
    /\ projects[2].summary \in SingleSummaries(projects[2])

\* the fetch of this run was answered and get_latest_projects gave no record:
\* nothing was fetched, or nothing was asked for
ZeroRecords ==
    /\ run.fetches > 0 /\ run.fetch.ok
    /\ (run.fetch.items = <<>> \/ run.cfg.PROJECTS_COUNT = 0)

(* C22: a run whose fetch succeeded with zero records has ended with exit
   status 0, having made no summarization request, no lookup and no draft
   POST. *)
C22_ZeroRecordsExitZero ==
    ZeroRecords =>
        /\ run.pc = "done" /\ run.status = 0
        /\ run.fetches = 1
        /\ log = <<>>
        /\ ~call.made

\* the source answered with an empty collection
C22_Witness ==
    /\ ZeroRecords
    /\ run.fetch.items = <<>>
    /\ run.cfg.PROJECTS_COUNT = 10
    /\ run.pc = "done" /\ run.status = 0

====
